---- MODULE Spec2Model ----
(***************************************************************************)
(* Model of the web-page change monitor (src/app.py): the JSON target      *)
(* registry, the scheduler thread master_monitoring_loop, the start/stop   *)
(* control toggle_monitoring, the operator handlers add_target and        *)
(* toggle_target_status and the dispatcher send_long_message.  db_lock is  *)
(* held for one load or one save only, so every load_targets() and every   *)
(* save_targets() is one atomic step and everything between two of them    *)
(* interleaves freely with other threads.  The lock itself and the four    *)
(* file functions are modelled apart (SpecStore).                          *)
(***************************************************************************)
EXTENDS Integers, Sequences, FiniteSets, TLC

(* ---------------- bounds of the model ---------------- *)
\* scheduler threads that can ever be created (the one started by __main__
\* plus the ones toggle_monitoring("start") creates)
MaxThreads == 2
\* largest id add_target may assign in the model
MaxId == 2
\* the clock time.time() runs over StartTime..MaxTime
MaxTime == 4
\* exceptions (registry I/O, context.new_page) injected in one behaviour
MaxFaults == 1
\* add, delete, enable and disable requests accepted in one behaviour
MaxOps == 3

StartTime == 2
Urls == {"http://a", "http://b"}
Contents == {"x", "y"}
Intervals == {1}
Handlers == {"h1", "h2"}
NULL == "null"
\* the extraction modes: the whole page (the default) and the item-list modes
PageMode == "page"
ItemMode == "items"
Modes == {PageMode, ItemMode}
\* lengths of a composed notification: a message built from the fixed
\* templates alone, and messages that carry attached content
ShortLens == {100}
LongLens == {100, 4800, 4801, 9600, 9601, 10000}

Threads == 1..MaxThreads
\* the callers of the four file functions: the scheduler threads and the
\* request handlers
SchedCallers == {"s1", "s2"}
Callers == SchedCallers \cup Handlers

VARIABLES
    db,                 \* contents of DB_FILE: the persisted list of targets
    settings_ok,        \* SETTINGS_FILE holds both channel_token and user_id
    monitoring_active,  \* app_state["monitoring_active"]
    now,                \* time.time()
    pc,                 \* position of each scheduler thread
    batch,              \* targets_to_check still to process (head = target)
    new_content,        \* result of perform_scrape_and_check
    all_targets_now,    \* the reconciliation's fresh snapshot
    ui,                 \* operator handlers between their load and their save
    deletedIds,         \* history: ids whose delete has been saved
    faults,             \* history: exceptions injected so far
    ops,                \* history: operator requests accepted so far
    notice,             \* the notification of the poll each thread is in
    lock,               \* the holder of db_lock
    access              \* the file access each caller is inside

vars == <<db, settings_ok, monitoring_active, now, pc, batch, new_content,
          all_targets_now, ui, deletedIds, faults, ops, notice, lock, access>>

sched == <<pc, batch, new_content, all_targets_now, notice>>

store == <<lock, access>>

(* ---------------- helpers over target lists ---------------- *)
Ids(ts) == {ts[i].id : i \in 1..Len(ts)}

\* next((t for t in targets if t['id'] == id), None): index of the first match
IndexOf(ts, id) ==
    IF id \in Ids(ts)
    THEN CHOOSE i \in 1..Len(ts) :
            /\ ts[i].id = id
            /\ \A j \in 1..(i-1) : ts[j].id # id
    ELSE 0

Find(ts, id) == ts[IndexOf(ts, id)]

MaxOf(S) == CHOOSE m \in S : \A x \in S : x <= m

Active(t) == pc[t] \notin {"unborn", "done", "crashed"}

ActiveThreads == {t \in Threads : Active(t)}

IdleUi == [op |-> "idle", id |-> 0, targets |-> <<>>]

\* no notification decided in the current poll
NoNotice == [event |-> "none", message |-> 0, outbox |-> <<>>,
             handed |-> <<>>, results |-> <<>>]

NoOne == "none"

\* the characters of the urls of the model
Chars(url) ==
    CASE url = "http://a" -> <<"h", "t", "t", "p", ":", "/", "/", "a">>
      [] url = "http://b" -> <<"h", "t", "t", "p", ":", "/", "/", "b">>
      [] url = "ftp://c" -> <<"f", "t", "p", ":", "/", "/", "c">>
      [] url = "httpx" -> <<"h", "t", "t", "p", "x">>
      [] OTHER -> <<>>

(* ---------------- the state after __main__ ---------------- *)
Init ==
    /\ db = <<>>
    /\ settings_ok = FALSE
    /\ monitoring_active = TRUE
    /\ now = StartTime
    /\ pc = [t \in Threads |-> IF t = 1 THEN "top" ELSE "unborn"]
    /\ batch = [t \in Threads |-> <<>>]
    /\ new_content = [t \in Threads |-> NULL]
    /\ all_targets_now = [t \in Threads |-> <<>>]
    /\ ui = [h \in Handlers |-> IdleUi]
    /\ deletedIds = {}
    /\ faults = 0
    /\ ops = 0
    /\ notice = [t \in Threads |-> NoNotice]
    /\ lock = NoOne
    /\ access = [c \in Callers |-> "idle"]

(* ---------------- the scheduler thread: master_monitoring_loop ---------------- *)
DueInclusive(tg) == (now - tg.last_checked >= tg.interval) /\ tg.enabled

\* the due filter of the list comprehension at the top of a cycle
Due(tg) == (now - tg.last_checked > tg.interval) /\ tg.enabled

Goto(t, label) == pc' = [pc EXCEPT ![t] = label]

\* while app_state["monitoring_active"]: the flag is read at the top of a cycle
LoopTop(t) ==
    /\ pc[t] = "top"
    /\ Goto(t, IF monitoring_active THEN "load" ELSE "done")
    /\ UNCHANGED <<db, settings_ok, monitoring_active, now, batch, new_content,
                   all_targets_now, ui, deletedIds, faults, ops, notice, store>>

\* targets_to_check = [t for t in load_targets() if due]
Snapshot(t) ==
    /\ pc[t] = "load"
    /\ batch' = [batch EXCEPT ![t] = SelectSeq(db, Due)]
    /\ Goto(t, IF batch'[t] = <<>> THEN "sleep" ELSE "pick")
    /\ UNCHANGED <<db, settings_ok, monitoring_active, now, new_content,
                   all_targets_now, ui, deletedIds, faults, ops, notice, store>>

\* an exception raised outside the per-target try (here by load_targets) is
\* caught by the outer except: the loop is left and the thread ends
SnapshotFails(t) ==
    /\ pc[t] = "load"
    /\ faults < MaxFaults
    /\ faults' = faults + 1
    /\ Goto(t, "crashed")
    /\ UNCHANGED <<db, settings_ok, monitoring_active, now, batch, new_content,
                   all_targets_now, ui, deletedIds, ops, notice, store>>

BeginTargetNeedsSettings(t) ==
    /\ pc[t] = "pick"
    /\ IF Head(batch[t]).enabled /\ settings_ok
       THEN /\ Goto(t, "fetching")
            /\ UNCHANGED new_content
       ELSE /\ Goto(t, "reload")
            /\ new_content' = [new_content EXCEPT ![t] = NULL]
    /\ UNCHANGED <<db, settings_ok, monitoring_active, now, batch,
                   all_targets_now, ui, deletedIds, faults, ops, notice, store>>

\* for target in targets_to_check: page = context.new_page(), then
\* perform_scrape_and_check reads the snapshot's enabled flag and starts goto
BeginTarget(t) ==
    /\ pc[t] = "pick"
    /\ IF Head(batch[t]).enabled
       THEN /\ Goto(t, "fetching")
            /\ UNCHANGED new_content
       ELSE /\ Goto(t, "reload")
            /\ new_content' = [new_content EXCEPT ![t] = NULL]
    /\ UNCHANGED <<db, settings_ok, monitoring_active, now, batch,
                   all_targets_now, ui, deletedIds, faults, ops, notice, store>>

\* context.new_page() is outside the per-target try
NewPageFails(t) ==
    /\ pc[t] = "pick"
    /\ faults < MaxFaults
    /\ faults' = faults + 1
    /\ Goto(t, "crashed")
    /\ UNCHANGED <<db, settings_ok, monitoring_active, now, batch, new_content,
                   all_targets_now, ui, deletedIds, ops, notice, store>>

(* ---------------- the dispatcher: send_long_message, send_message ---------------- *)
\* max_length of send_long_message
max_length == 4800

Min(a, b) == IF a <= b THEN a ELSE b

\* len(str(n))
RECURSIVE NumDigits(_)
NumDigits(n) == IF n < 10 THEN 1 ELSE 1 + NumDigits(n \div 10)

\* range(start, stop, step)
RECURSIVE PyRange(_, _, _)
PyRange(start, stop, step) ==
    IF start < stop THEN <<start>> \o PyRange(start + step, stop, step) ELSE <<>>

PartsOverlapping(len) ==
    LET starts == PyRange(0, len, max_length)
    IN  [k \in 1..Len(starts) |->
            [from |-> starts[k], to |-> Min(starts[k] + max_length, len)]]

\* parts = [message[i:i+max_length] for i in range(0, len(message), max_length)]
\* a part is the slice of the message from character from to character to
\* (counted from 1, both included)
Parts(len) ==
    LET starts == PyRange(0, len, max_length)
    IN  [k \in 1..Len(starts) |->
            [from |-> starts[k] + 1, to |-> Min(starts[k] + max_length, len)]]

\* the texts send_long_message hands to send_message for a message of len
\* characters: the message itself, or each part behind its header; label is
\* <<i+1, len(parts)>> of the header, <<>> without one
Texts(len) ==
    IF len <= max_length
    THEN << [label |-> <<>>, from |-> 1, to |-> len] >>
    ELSE LET parts == Parts(len)
         IN  [k \in 1..Len(parts) |->
                [label |-> <<k, Len(parts)>>,
                 from |-> parts[k].from, to |-> parts[k].to]]

\* len(part_header): the two brackets, the slash and the newline around the
\* two numbers
HeaderLen(label) ==
    IF label = <<>> THEN 0 ELSE 4 + NumDigits(label[1]) + NumDigits(label[2])

\* len of a text handed to send_message
TextLen(x) == HeaderLen(x.label) + (x.to - x.from + 1)

(* ---------------- perform_scrape_and_check ---------------- *)
ClassifyNoInitial(last, content) ==
    IF last # content THEN "Changed" ELSE "Unchanged"

\* the three branches on target.get('last_content') and new_content
Classify(last, content) ==
    IF last = NULL THEN "Initial"
    ELSE IF last # content THEN "Changed"
    ELSE "Unchanged"

NotifiesOnFlag(event, tg) == tg.notify_on_check

\* whether the branch calls send_long_message
Notifies(event, tg) ==
    CASE event = "Initial" -> tg.notify_on_check
      [] event = "Changed" -> TRUE
      [] OTHER -> tg.notify_on_check

\* the message is a fixed template around site_name and url unless
\* attach_content adds the diff, the old and new content or the item list
MessageLens(event, tg, content) ==
    IF tg.attach_content /\ (event = "Changed" \/ (tg.mode # PageMode /\ content # ""))
    THEN LongLens
    ELSE ShortLens

\* site_name = url.split('/')[2] raises unless the url has two slashes
HasSiteName(url) ==
    Cardinality({i \in 1..Len(Chars(url)) : Chars(url)[i] = "/"}) >= 2

\* the navigation and extraction end: None when anything in the try block
\* raised, else the extracted text, classified against the snapshot's
\* last_content, with the message to send if the branch sends one
FetchEnd(t) ==
    /\ pc[t] = "fetching"
    /\ \E r \in (IF HasSiteName(Head(batch[t]).url) THEN Contents ELSE {})
                   \cup {NULL} :
          /\ new_content' = [new_content EXCEPT ![t] = r]
          /\ IF r = NULL
             THEN /\ Goto(t, "reload")
                  /\ UNCHANGED notice
             ELSE LET tg == Head(batch[t])
                      event == Classify(tg.last_content, r)
                  IN  IF Notifies(event, tg)
                      THEN /\ \E len \in MessageLens(event, tg, r) :
                                notice' = [notice EXCEPT ![t] =
                                    [event |-> event, message |-> len,
                                     outbox |-> Texts(len),
                                     handed |-> <<>>, results |-> <<>>]]
                           /\ Goto(t, "notify")
                      ELSE /\ notice' = [notice EXCEPT ![t] =
                                    [NoNotice EXCEPT !.event = event]]
                           /\ Goto(t, "reload")
    /\ UNCHANGED <<db, settings_ok, monitoring_active, now, batch,
                   all_targets_now, ui, deletedIds, faults, ops, store>>

SendMessageAborts(t) ==
    /\ pc[t] = "notify"
    /\ \E res \in (IF settings_ok THEN {"ok", "failed"} ELSE {"no_settings"}) :
          /\ notice' = [notice EXCEPT ![t] =
                [@ EXCEPT !.outbox = IF res = "failed" THEN <<>> ELSE Tail(@),
                          !.handed = Append(@, Head(notice[t].outbox)),
                          !.results = Append(@, res)]]
          /\ Goto(t, IF notice'[t].outbox = <<>> THEN "reload" ELSE "notify")
    /\ UNCHANGED <<db, settings_ok, monitoring_active, now, batch, new_content,
                   all_targets_now, ui, deletedIds, faults, ops, store>>

\* one send_message(text) of send_long_message: without both credentials an
\* ERROR is logged and nothing is posted; else the text is posted and the
\* post succeeds or raises, which send_message catches; after the last text
\* perform_scrape_and_check returns new_content
SendMessage(t) ==
    /\ pc[t] = "notify"
    /\ \E res \in (IF settings_ok THEN {"ok", "failed"} ELSE {"no_settings"}) :
          notice' = [notice EXCEPT ![t] =
                [@ EXCEPT !.outbox = Tail(@),
                          !.handed = Append(@, Head(notice[t].outbox)),
                          !.results = Append(@, res)]]
    /\ Goto(t, IF Tail(notice[t].outbox) = <<>> THEN "reload" ELSE "notify")
    /\ UNCHANGED <<db, settings_ok, monitoring_active, now, batch, new_content,
                   all_targets_now, ui, deletedIds, faults, ops, store>>

\* all_targets_now = load_targets(); target_to_update = next(...)
ReconcileLoad(t) ==
    /\ pc[t] = "reload"
    /\ all_targets_now' = [all_targets_now EXCEPT ![t] = db]
    /\ Goto(t, IF Head(batch[t]).id \in Ids(db) THEN "save" ELSE "close")
    /\ UNCHANGED <<db, settings_ok, monitoring_active, now, batch, new_content,
                   ui, deletedIds, faults, ops, notice, store>>

\* an exception of load_targets inside the per-target try is logged there
ReconcileLoadFails(t) ==
    /\ pc[t] = "reload"
    /\ faults < MaxFaults
    /\ faults' = faults + 1
    /\ Goto(t, "close")
    /\ UNCHANGED <<db, settings_ok, monitoring_active, now, batch, new_content,
                   all_targets_now, ui, deletedIds, ops, notice, store>>

ReconciledAlways(ts, id, content, time) ==
    [i \in 1..Len(ts) |->
        IF i = IndexOf(ts, id)
        THEN [ts[i] EXCEPT !.last_checked = time, !.last_content = content]
        ELSE ts[i]]

\* target_to_update['last_checked'] = time.time(); last_content only when
\* new_content is not None
Reconciled(ts, id, content, time) ==
    [i \in 1..Len(ts) |->
        IF i = IndexOf(ts, id)
        THEN [ts[i] EXCEPT !.last_checked = time,
                           !.last_content = IF content # NULL THEN content ELSE @]
        ELSE ts[i]]

\* save_targets(all_targets_now)
ReconcileSave(t) ==
    /\ pc[t] = "save"
    /\ db' = Reconciled(all_targets_now[t], Head(batch[t]).id, new_content[t], now)
    /\ Goto(t, "close")
    /\ UNCHANGED <<settings_ok, monitoring_active, now, batch, new_content,
                   all_targets_now, ui, deletedIds, faults, ops, notice, store>>

ReconcileSaveFails(t) ==
    /\ pc[t] = "save"
    /\ faults < MaxFaults
    /\ faults' = faults + 1
    /\ Goto(t, "close")
    /\ UNCHANGED <<db, settings_ok, monitoring_active, now, batch, new_content,
                   all_targets_now, ui, deletedIds, ops, notice, store>>

ClosePageBreaks(t) ==
    /\ pc[t] = "close"
    /\ batch' = [batch EXCEPT ![t] = IF monitoring_active THEN Tail(@) ELSE <<>>]
    /\ new_content' = [new_content EXCEPT ![t] = NULL]
    /\ all_targets_now' = [all_targets_now EXCEPT ![t] = <<>>]
    /\ notice' = [notice EXCEPT ![t] = NoNotice]
    /\ Goto(t, IF batch'[t] = <<>> THEN "sleep" ELSE "pick")
    /\ UNCHANGED <<db, settings_ok, monitoring_active, now, ui, deletedIds, faults,
                   ops, store>>

\* finally: page.close(), then the next target of the batch or the sleep
ClosePage(t) ==
    /\ pc[t] = "close"
    /\ batch' = [batch EXCEPT ![t] = Tail(@)]
    /\ new_content' = [new_content EXCEPT ![t] = NULL]
    /\ all_targets_now' = [all_targets_now EXCEPT ![t] = <<>>]
    /\ notice' = [notice EXCEPT ![t] = NoNotice]
    /\ Goto(t, IF batch'[t] = <<>> THEN "sleep" ELSE "pick")
    /\ UNCHANGED <<db, settings_ok, monitoring_active, now, ui, deletedIds, faults,
                   ops, store>>

\* time.sleep(5), then back to the loop condition
Sleep(t) ==
    /\ pc[t] = "sleep"
    /\ Goto(t, "top")
    /\ UNCHANGED <<db, settings_ok, monitoring_active, now, batch, new_content,
                   all_targets_now, ui, deletedIds, faults, ops, notice, store>>

ThreadStep(t) ==
    \/ LoopTop(t)
    \/ Snapshot(t)
    \/ SnapshotFails(t)
    \/ BeginTarget(t)
    \/ NewPageFails(t)
    \/ FetchEnd(t)
    \/ SendMessage(t)
    \/ ReconcileLoad(t)
    \/ ReconcileLoadFails(t)
    \/ ReconcileSave(t)
    \/ ReconcileSaveFails(t)
    \/ ClosePage(t)
    \/ Sleep(t)

(* ---------------- toggle_monitoring ---------------- *)
Stop ==
    /\ monitoring_active' = FALSE
    /\ UNCHANGED <<db, settings_ok, now, sched, ui, deletedIds, faults, ops, store>>

\* if not app_state["monitoring_active"]: the only condition under which a
\* thread is created
StartSpawns == ~monitoring_active

Start ==
    IF StartSpawns
    THEN /\ \E t \in Threads :
              /\ pc[t] = "unborn"
              /\ \A u \in Threads : pc[u] = "unborn" => t <= u
              /\ Goto(t, "top")
         /\ monitoring_active' = TRUE
         /\ UNCHANGED <<db, settings_ok, now, batch, new_content,
                        all_targets_now, ui, deletedIds, faults, ops, notice, store>>
    ELSE UNCHANGED vars

(* ---------------- operator handlers ---------------- *)
\* save_line_settings: both credentials present (TRUE) or not
SaveLineSettings(v) ==
    /\ settings_ok' = v
    /\ UNCHANGED <<db, monitoring_active, now, sched, ui, deletedIds, faults, ops, store>>

NewId(ts) == MaxOf(Ids(ts) \cup {0}) + 1

\* new_target of add_target
NewTarget(id, req) ==
    [id |-> id, url |-> req.url, mode |-> req.mode, interval |-> req.interval,
     notify_on_check |-> req.notify_on_check,
     attach_content |-> req.attach_content,
     enabled |-> TRUE, last_content |-> NULL, last_checked |-> 0]

\* the arguments of an add_target request
Request(url, interval, mode, notify, attach) ==
    [url |-> url, interval |-> interval, mode |-> mode,
     notify_on_check |-> notify, attach_content |-> attach]

\* str.startswith
StartsWith(cs, prefix) ==
    Len(cs) >= Len(prefix) /\ SubSeq(cs, 1, Len(prefix)) = prefix

\* not all([url, interval, mode]): an empty string, None or 0
MissingField(req) == req.url = "" \/ req.interval = 0 \/ req.mode = ""

\* the two early returns of add_target passed
WellFormed(req) ==
    ~MissingField(req) /\ StartsWith(Chars(req.url), <<"h", "t", "t", "p">>)

UrlTakenNever(ts, url) == FALSE

\* any(t['url'] == url for t in targets)
UrlTaken(ts, url) == \E i \in 1..Len(ts) : ts[i].url = url

\* add_target up to its save: required fields, url prefix, credentials check,
\* load, duplicate-url check, new id, append
AddLoad(h, req) ==
    /\ ui[h].op = "idle"
    /\ IF WellFormed(req) /\ settings_ok /\ ~UrlTaken(db, req.url)
       THEN /\ NewId(db) <= MaxId
            /\ ops < MaxOps
            /\ ops' = ops + 1
            /\ ui' = [ui EXCEPT ![h] =
                        [op |-> "add", id |-> NewId(db),
                         targets |-> Append(db, NewTarget(NewId(db), req))]]
       ELSE UNCHANGED <<ui, ops>>
    /\ UNCHANGED <<db, settings_ok, monitoring_active, now, sched, deletedIds, faults, store>>

\* the three branches of toggle_target_status on the loaded list
Toggled(ts, id, action) ==
    IF action = "delete"
    THEN SelectSeq(ts, LAMBDA tg : tg.id # id)
    ELSE [i \in 1..Len(ts) |->
            IF i = IndexOf(ts, id)
            THEN [ts[i] EXCEPT !.enabled = (action = "enable")]
            ELSE ts[i]]

\* toggle_target_status up to its save
ToggleLoad(h, id, action) ==
    /\ ui[h].op = "idle"
    /\ IF id \in Ids(db)
       THEN /\ ops < MaxOps
            /\ ops' = ops + 1
            /\ ui' = [ui EXCEPT ![h] =
                        [op |-> action, id |-> id, targets |-> Toggled(db, id, action)]]
       ELSE UNCHANGED <<ui, ops>>
    /\ UNCHANGED <<db, settings_ok, monitoring_active, now, sched, deletedIds, faults, store>>

\* save_targets(targets) of add_target and of toggle_target_status
UiSave(h) ==
    /\ ui[h].op # "idle"
    /\ db' = ui[h].targets
    /\ deletedIds' = IF ui[h].op = "delete" THEN deletedIds \cup {ui[h].id}
                     ELSE deletedIds
    /\ ui' = [ui EXCEPT ![h] = IdleUi]
    /\ UNCHANGED <<settings_ok, monitoring_active, now, sched, faults, ops, store>>

\* the passage of time
Tick ==
    /\ now < MaxTime
    /\ now' = now + 1
    /\ UNCHANGED <<db, settings_ok, monitoring_active, pc, batch, new_content,
                   all_targets_now, ui, deletedIds, faults, ops, notice, store>>

\* the scheduler threads
SchedNext == \E t \in Threads : ThreadStep(t)

\* the add requests of the form: a url of Urls, the whole-page mode, both
\* checkboxes left unticked
AddRequests ==
    {Request(u, n, PageMode, FALSE, FALSE) : u \in Urls, n \in Intervals}

\* the operator's requests on the registry and the settings, the add requests
\* drawn from reqs
OpsOn(reqs) ==
    \/ \E v \in BOOLEAN : SaveLineSettings(v)
    \/ \E h \in Handlers, r \in reqs : AddLoad(h, r)
    \/ \E h \in Handlers, id \in 1..MaxId, a \in {"delete", "disable", "enable"} :
          ToggleLoad(h, id, a)
    \/ \E h \in Handlers : UiSave(h)

OpsNext == OpsOn(AddRequests)

\* the operator's start and stop buttons
CtlNext ==
    \/ Stop
    \/ Start

Next ==
    \/ SchedNext
    \/ OpsNext
    \/ CtlNext
    \/ Tick

Spec == Init /\ [][Next]_vars

\* The scheduler started by __main__ against the operator's registry
\* requests, the monitoring flag left alone.
NextOps ==
    \/ SchedNext
    \/ OpsNext
    \/ Tick

SpecOps == Init /\ [][NextOps]_vars

\* Start and stop against the scheduler threads over a registry that earlier
\* add requests have filled.
TargetA == NewTarget(1, Request("http://a", 1, PageMode, FALSE, FALSE))

TargetB == NewTarget(2, Request("http://b", 1, PageMode, FALSE, FALSE))

Registries ==
    { <<TargetA>>,
      <<TargetA, TargetB>>,
      <<[TargetA EXCEPT !.last_content = "x", !.last_checked = StartTime],
        TargetB>>,
      <<[TargetA EXCEPT !.enabled = FALSE], TargetB>> }

InitWith(regs) ==
    /\ db \in regs
    /\ settings_ok = TRUE
    /\ monitoring_active = TRUE
    /\ now = StartTime
    /\ pc = [t \in Threads |-> IF t = 1 THEN "top" ELSE "unborn"]
    /\ batch = [t \in Threads |-> <<>>]
    /\ new_content = [t \in Threads |-> NULL]
    /\ all_targets_now = [t \in Threads |-> <<>>]
    /\ ui = [h \in Handlers |-> IdleUi]
    /\ deletedIds = {}
    /\ faults = 0
    /\ ops = 0
    /\ notice = [t \in Threads |-> NoNotice]
    /\ lock = NoOne
    /\ access = [c \in Callers |-> "idle"]

InitCtl == InitWith({<<TargetA>>})

NextCtl ==
    \/ SchedNext
    \/ CtlNext
    \/ Tick

SpecCtl == InitCtl /\ [][NextCtl]_vars

\* A stop that no start follows: the scheduler started by __main__, the stop
\* button and the clock.
NextStop ==
    \/ SchedNext
    \/ Stop
    \/ Tick

InitStop == InitWith(Registries)

SpecStop == InitStop /\ [][NextStop]_vars

\* every thread that can take a step eventually takes one: an OS thread is
\* not starved, and each sleep, fetch, load and save returns
FairStop == SpecStop /\ \A t \in Threads : WF_vars(ThreadStep(t))

\* One scheduler thread polling one target, nothing else running: the target
\* as add_target created it with each mode and each pair of checkboxes, never
\* polled or polled once before (content "x" at StartTime), the credentials
\* saved or cleared.
PollRegistries ==
    { << [NewTarget(1, Request("http://a", 1, m, n, a))
            EXCEPT !.last_content = c,
                   !.last_checked = IF c = NULL THEN 0 ELSE StartTime] >> :
        m \in Modes, n \in BOOLEAN, a \in BOOLEAN, c \in {NULL, "x"} }

InitPoll ==
    /\ db \in PollRegistries
    /\ settings_ok \in BOOLEAN
    /\ monitoring_active = TRUE
    /\ now = StartTime
    /\ pc = [t \in Threads |-> IF t = 1 THEN "top" ELSE "unborn"]
    /\ batch = [t \in Threads |-> <<>>]
    /\ new_content = [t \in Threads |-> NULL]
    /\ all_targets_now = [t \in Threads |-> <<>>]
    /\ ui = [h \in Handlers |-> IdleUi]
    /\ deletedIds = {}
    /\ faults = 0
    /\ ops = 0
    /\ notice = [t \in Threads |-> NoNotice]
    /\ lock = NoOne
    /\ access = [c \in Callers |-> "idle"]

NextPoll ==
    \/ SchedNext
    \/ Tick

SpecPoll == InitPoll /\ [][NextPoll]_vars

\* The operator's requests alone, the add form filled in any way: a url with
\* or without the prefix, with or without a scheme, or left empty, the
\* interval or the mode left empty.
AddRequestsAny ==
    {Request(u, n, m, FALSE, FALSE) :
        u \in Urls \cup {"", "ftp://c", "httpx"},
        n \in Intervals \cup {0},
        m \in {PageMode, ""}}

NextAdd == OpsOn(AddRequestsAny)

SpecAdd == Init /\ [][NextAdd]_vars

(* ---------------- the four file functions and db_lock ---------------- *)
\* with db_lock: open(DB_FILE): load_targets or save_targets takes the lock
\* and is inside its file access
TargetsBegin(c, kind) ==
    /\ access[c] = "idle"
    /\ lock = NoOne
    /\ lock' = c
    /\ access' = [access EXCEPT ![c] = kind]
    /\ UNCHANGED <<db, settings_ok, monitoring_active, now, sched, ui, deletedIds,
                   faults, ops>>

\* the with block of load_targets or save_targets is left
TargetsEnd(c) ==
    /\ access[c] \in {"load_targets", "save_targets"}
    /\ lock' = NoOne
    /\ access' = [access EXCEPT ![c] = "idle"]
    /\ UNCHANGED <<db, settings_ok, monitoring_active, now, sched, ui, deletedIds,
                   faults, ops>>

\* open(SETTINGS_FILE) of load_settings or save_settings: no lock is taken
SettingsBegin(c, kind) ==
    /\ access[c] = "idle"
    /\ access' = [access EXCEPT ![c] = kind]
    /\ UNCHANGED <<db, settings_ok, monitoring_active, now, sched, ui, deletedIds,
                   faults, ops, lock>>

\* the file of load_settings or save_settings is closed
SettingsEnd(c) ==
    /\ access[c] \in {"load_settings", "save_settings"}
    /\ access' = [access EXCEPT ![c] = "idle"]
    /\ UNCHANGED <<db, settings_ok, monitoring_active, now, sched, ui, deletedIds,
                   faults, ops, lock>>

\* the scheduler loads and saves the registry and loads the settings (in
\* send_message); the handlers also save the settings
NextStore ==
    \/ \E c \in Callers, k \in {"load_targets", "save_targets"} : TargetsBegin(c, k)
    \/ \E c \in Callers : TargetsEnd(c)
    \/ \E c \in Callers : SettingsBegin(c, "load_settings")
    \/ \E c \in Handlers : SettingsBegin(c, "save_settings")
    \/ \E c \in Callers : SettingsEnd(c)

SpecStore == Init /\ [][NextStore]_vars

(* ---------------- what a poll's notification did ---------------- *)
\* the poll of thread t called send_long_message
Dispatched(t) == notice[t].message > 0

\* send_long_message of the poll of thread t has returned
DispatchDone(t) == Dispatched(t) /\ notice[t].outbox = <<>>

\* the texts given to requests.post, in order: the texts handed to
\* send_message that passed its credentials check
Posted(t) ==
    LET n == notice[t]
        idx == SelectSeq([i \in 1..Len(n.handed) |-> i],
                         LAMBDA i : n.results[i] # "no_settings")
    IN  [k \in 1..Len(idx) |-> n.handed[idx[k]]]

\* the ERROR entries send_message logged for the missing credentials
ErrorsLogged(t) ==
    Cardinality({i \in 1..Len(notice[t].results) :
                    notice[t].results[i] = "no_settings"})

(* ======================= the claims ======================= *)

\* C1: at most one scheduler thread is active at any time, also when a Start
\* follows a Stop before the running thread has re-read the flag.
C1_AtMostOneScheduler == Cardinality(ActiveThreads) <= 1

\* C2: a target deleted while its poll is in flight is not written back by
\* the poll's reconciliation: a reconciliation save for an id that a delete
\* has removed from the registry leaves that id absent.
C2_DeletedNotWrittenBack ==
    [][\A t \in Threads :
          (ReconcileSave(t) /\ Head(batch[t]).id \in deletedIds
                            /\ Head(batch[t]).id \notin Ids(db))
             => Head(batch[t]).id \notin Ids(db')]_vars

\* the save of an add_target request
AddSaves == \E h \in Handlers : UiSave(h) /\ ui[h].op = "add"

\* C3: from one persisted registry to the next (the save of an add, which
\* creates a target, set aside), a target's last_content never goes back to
\* null and changes only in the reconciliation save of a successful
\* extraction of that target, to the extracted content.
C3_ContentOnlyByExtraction ==
    [][\A i \in 1..Len(db), j \in 1..Len(db') :
          (~AddSaves /\ db[i].id = db'[j].id
                     /\ db[i].last_content # db'[j].last_content)
             => /\ db'[j].last_content # NULL
                /\ \E t \in Threads :
                      /\ ReconcileSave(t)
                      /\ Head(batch[t]).id = db[i].id
                      /\ new_content[t] = db'[j].last_content]_vars

\* C4: from one persisted registry to the next (the save of an add set
\* aside), no target's last_checked decreases.
C4_LastCheckedMonotonic ==
    [][\A i \in 1..Len(db), j \in 1..Len(db') :
          (~AddSaves /\ db[i].id = db'[j].id)
             => db'[j].last_checked >= db[i].last_checked]_vars

\* C5: a failed extraction does not end the per-target pipeline, and the
\* reconciliation save that follows it stores the current time as the
\* target's last_checked and stores as its last_content the value the
\* registry held for it when the reconciliation reloaded it.
C5_FailedFetchKeepsContent ==
    [][\A t \in Threads :
          /\ (pc[t] = "fetching" /\ pc'[t] # "fetching")
                => /\ pc'[t] \in {"reload", "notify"}
                   /\ new_content'[t] = NULL => pc'[t] = "reload"
          /\ (ReconcileSave(t) /\ new_content[t] = NULL)
                => /\ Head(batch[t]).id \in Ids(db')
                   /\ Find(db', Head(batch[t]).id).last_checked = now
                   /\ Find(db', Head(batch[t]).id).last_content
                         = Find(all_targets_now[t], Head(batch[t]).id).last_content]_vars

\* C5 witness: a failed poll of a target that already had content has just
\* been reconciled and saved.
C5_Witness ==
    \E t \in Threads :
        /\ pc[t] = "close"
        /\ new_content[t] = NULL
        /\ faults = 0
        /\ Head(batch[t]).id \in Ids(all_targets_now[t])
        /\ Head(batch[t]).id \in Ids(db)
        /\ Find(db, Head(batch[t]).id).last_checked = now
        /\ Find(db, Head(batch[t]).id).last_content \in Contents

\* C6: the save of an add never assigns an id whose target was deleted before.
C6_DeletedIdNotReused ==
    [][\A h \in Handlers :
          (UiSave(h) /\ ui[h].op = "add") => ui[h].id \notin deletedIds]_vars

\* C7: in every persisted registry the targets have pairwise distinct ids and
\* pairwise distinct urls.
C7_UniqueIdsAndUrls ==
    \A i, j \in 1..Len(db) :
        i # j => (db[i].id # db[j].id /\ db[i].url # db[j].url)

\* C7 witness: a registry of two targets while a handler and a reconciliation
\* are both between their load and their save.
C7_Witness ==
    /\ Len(db) = 2
    /\ \E h \in Handlers : ui[h].op # "idle"
    /\ \E t \in Threads : pc[t] = "save"

\* C8: the scheduler starts no fetch of a target whose persisted enabled flag
\* is false.
C8_DisabledNeverFetched ==
    [][\A t \in Threads :
          (pc[t] = "pick" /\ pc'[t] = "fetching" /\ Head(batch[t]).id \in Ids(db))
             => Find(db, Head(batch[t]).id).enabled]_vars

\* C9: after a Stop that no Start follows, a thread leaves its loop only at
\* the loop condition with its batch worked off, a target leaves the batch
\* only when its pipeline has reached page.close(), a thread that has left
\* starts nothing again, and every thread eventually terminates.
C9_StopDrainsBatch ==
    /\ [][\A t \in Threads :
            /\ (pc'[t] = "done" /\ pc[t] # "done")
                  => (pc[t] = "top" /\ batch[t] = <<>> /\ ~monitoring_active)
            /\ (batch[t] # <<>> /\ batch'[t] # batch[t])
                  => (pc[t] = "close" /\ batch'[t] = Tail(batch[t]))
            /\ (pc[t] = "pick" /\ pc'[t] # "pick")
                  => pc'[t] \in {"fetching", "crashed"}
            /\ pc[t] \in {"done", "crashed"} => pc'[t] = pc[t]]_vars
    /\ (~monitoring_active) ~> (ActiveThreads = {})

\* C9 witness: stopped, the first target of a batch of two reconciled and
\* saved, the thread about to start on the second.
C9_Witness ==
    \E t \in Threads :
        /\ ~monitoring_active
        /\ pc[t] = "pick"
        /\ Len(batch[t]) = 1
        /\ Len(db) = 2
        /\ db[1].last_checked > 0
        /\ db[2].last_checked = 0
        /\ Head(batch[t]).id = db[2].id

\* C10: when the scheduler thread has ended through an exception and no
\* thread runs, a Start creates a thread.
C10_StartAfterCrashSpawns ==
    ((\E t \in Threads : pc[t] = "crashed") /\ ActiveThreads = {}) => StartSpawns

\* C11: a successful poll classified Initial or Unchanged calls the
\* dispatcher exactly when the target's notify_on_check is set, and a poll
\* classified Changed calls it whatever the flag.
C11_NotifyRule ==
    [][\A t \in Threads :
          (FetchEnd(t) /\ new_content'[t] # NULL)
             => /\ notice'[t].event \in {"Initial", "Unchanged", "Changed"}
                /\ notice'[t].event \in {"Initial", "Unchanged"}
                      => (Dispatched(t)' <=> Head(batch[t]).notify_on_check)
                /\ notice'[t].event = "Changed" => Dispatched(t)'
                /\ Dispatched(t)' <=> pc'[t] = "notify"]_vars

\* C11 witness: a Changed poll of a target whose notify_on_check is off is
\* sending its notification.
C11_Witness ==
    \E t \in Threads :
        /\ pc[t] = "notify"
        /\ notice[t].event = "Changed"
        /\ ~Head(batch[t]).notify_on_check
        /\ Head(batch[t]).last_content # NULL

\* C12: one target with notify_on_check off, polled by the one scheduler with
\* nothing else running and no exception: a successful poll is Initial
\* exactly when the persisted last_content is null, Unchanged exactly when
\* the extracted content equals it and Changed otherwise; the dispatcher is
\* called in exactly the Changed polls; and when the poll's pipeline reaches
\* page.close() the persisted last_content is the extracted content.
C12_SerialPolls ==
    [][\A t \in Threads :
          /\ (FetchEnd(t) /\ new_content'[t] # NULL
                          /\ ~Head(batch[t]).notify_on_check)
                => LET persisted == Find(db, Head(batch[t]).id).last_content
                       event == notice'[t].event
                   IN  /\ event = "Initial" <=> persisted = NULL
                       /\ event = "Unchanged" <=> persisted = new_content'[t]
                       /\ event = "Changed" <=>
                             (persisted # NULL /\ persisted # new_content'[t])
                       /\ Dispatched(t)' <=> event = "Changed"
          /\ (pc[t] # "close" /\ pc'[t] = "close" /\ new_content[t] # NULL
                              /\ faults' = 0)
                => Find(db', Head(batch[t]).id).last_content = new_content[t]]_vars

\* C12 witness: a target polled before, notify_on_check off, has been polled
\* again without an exception, the poll classified Changed, its notification
\* sent and its content saved.
C12_Witness ==
    \E t \in Threads :
        /\ pc[t] = "close"
        /\ faults = 0
        /\ ~Head(batch[t]).notify_on_check
        /\ notice[t].event = "Changed"
        /\ DispatchDone(t)
        /\ Head(batch[t]).last_checked = StartTime
        /\ db[1].last_content = new_content[t]
        /\ db[1].last_checked = now

\* C13: with the credentials present, when send_long_message has returned
\* for a message of L characters the texts posted are: for L <= 4800 the one
\* unlabelled message; for L > 4800 N = ceil(L / 4800) chunks, the i-th
\* labelled i/N, each body at most 4800 characters, the bodies running
\* from the first character to the last without gap or overlap.
C13_Chunking ==
    \A t \in Threads :
        (DispatchDone(t) /\ "no_settings" \notin
                               {notice[t].results[i] : i \in 1..Len(notice[t].results)})
           => LET L == notice[t].message
                  N == (L + max_length - 1) \div max_length
                  sent == Posted(t)
              IN  IF L <= max_length
                  THEN sent = << [label |-> <<>>, from |-> 1, to |-> L] >>
                  ELSE /\ Len(sent) = N
                       /\ \A i \in 1..N :
                             /\ sent[i].label = <<i, N>>
                             /\ sent[i].to - sent[i].from + 1 <= max_length
                             /\ sent[i].to >= sent[i].from
                             /\ sent[i].from = IF i = 1 THEN 1 ELSE sent[i-1].to + 1
                       /\ sent[N].to = L

\* C13 witness: a message of 9601 characters has gone out in three chunks.
C13_Witness ==
    \E t \in Threads :
        /\ DispatchDone(t)
        /\ notice[t].message = 9601
        /\ Len(Posted(t)) = 3
        /\ Posted(t)[3].label = <<3, 3>>
        /\ Posted(t)[3].from = Posted(t)[3].to

\* C14: every text given to requests.post is at most 4800 characters long,
\* the header of a chunk counted.
C14_PostedWithinLimit ==
    \A t \in Threads :
        \A i \in 1..Len(Posted(t)) : TextLen(Posted(t)[i]) <= max_length

\* C15: when the credentials are absent and send_long_message has returned,
\* exactly one ERROR has been logged and nothing has been posted, whatever
\* the length of the message.
C15_OneErrorNoPost ==
    \A t \in Threads :
        (DispatchDone(t) /\ ~settings_ok)
           => (ErrorsLogged(t) = 1 /\ Posted(t) = <<>>)

\* C16: a post that fails leaves the rest of the message to be sent, next
\* chunk first, and leaves the extracted content in place; when
\* send_long_message has returned every chunk has been handed over in order
\* whatever failed; and the reconciliation save of a poll with a failed post
\* stores the extracted content and the current time.
C16_FailedSendGoesOn ==
    [][\A t \in Threads :
          /\ (SendMessage(t) /\ notice'[t].results[Len(notice'[t].results)] = "failed")
                => /\ notice'[t].outbox = Tail(notice[t].outbox)
                   /\ notice'[t].outbox # <<>> => pc'[t] = "notify"
                   /\ notice'[t].outbox = <<>> => pc'[t] = "reload"
                   /\ new_content'[t] = new_content[t]
                   /\ new_content[t] # NULL
          /\ DispatchDone(t)' => notice'[t].handed = Texts(notice'[t].message)
          /\ (ReconcileSave(t) /\ \E i \in 1..Len(notice[t].results) :
                                      notice[t].results[i] = "failed")
                => /\ Find(db', Head(batch[t]).id).last_content = new_content[t]
                   /\ Find(db', Head(batch[t]).id).last_checked = now]_vars

\* C16 witness: the first chunk of a message of three failed, the other two
\* went out, and the poll's content and time are saved.
C16_Witness ==
    \E t \in Threads :
        /\ pc[t] = "close"
        /\ notice[t].results = <<"failed", "ok", "ok">>
        /\ db[1].last_content = new_content[t]
        /\ new_content[t] # Head(batch[t]).last_content
        /\ db[1].last_checked = now

\* C17: the batch a cycle starts with holds, in registry order, exactly the
\* targets of the registry as it is at that load that are enabled and whose
\* last_checked lies more than interval before now: none whose last_checked
\* lies interval or less before now, and every enabled target never polled.
C17_DueSet ==
    [][\A t \in Threads :
          (pc[t] = "load" /\ pc'[t] \in {"pick", "sleep"})
             => /\ \A j \in 1..Len(batch'[t]) :
                      \E i \in 1..Len(db) : batch'[t][j] = db[i]
                /\ \A i \in 1..Len(db) :
                      /\ (\E j \in 1..Len(batch'[t]) : batch'[t][j] = db[i])
                            <=> (db[i].enabled
                                   /\ now - db[i].last_checked > db[i].interval)
                      /\ now - db[i].last_checked <= db[i].interval
                            => db[i].id \notin Ids(batch'[t])
                      /\ (db[i].enabled /\ db[i].last_checked = 0)
                            => db[i].id \in Ids(batch'[t])
                /\ \A j, k \in 1..Len(batch'[t]) :
                      j < k => IndexOf(db, batch'[t][j].id) < IndexOf(db, batch'[t][k].id)]_vars

\* C17 witness: a cycle has just started with a never-polled target in its
\* batch and without an enabled target polled exactly interval ago.
C17_Witness ==
    \E t \in Threads :
        /\ pc[t] = "pick"
        /\ new_content[t] = NULL
        /\ \E i \in 1..Len(db) :
              /\ db[i].enabled
              /\ now - db[i].last_checked = db[i].interval
              /\ db[i].id \notin Ids(batch[t])
        /\ \E i \in 1..Len(db) :
              /\ db[i].last_checked = 0
              /\ db[i].id \in Ids(batch[t])

\* C18: an add request with a field missing, with a url that does not start
\* with a scheme (letters followed by "://"), with a url the registry already
\* holds or made while the credentials are absent prepares no save and leaves
\* the registry as it is, and so does an enable, disable or delete request
\* for an id the registry does not hold.
C18_RejectedLeavesRegistry ==
    [][\A h \in Handlers :
          /\ \A r \in AddRequestsAny :
                LET cs == Chars(r.url)
                    scheme == \E k \in 1..Len(cs) :
                                 /\ k + 3 <= Len(cs)
                                 /\ SubSeq(cs, k + 1, k + 3) = <<":", "/", "/">>
                                 /\ \A i \in 1..k : cs[i] \notin {":", "/"}
                IN  (AddLoad(h, r) /\ (MissingField(r) \/ ~scheme
                                         \/ UrlTaken(db, r.url) \/ ~settings_ok))
                       => (ui'[h] = IdleUi /\ db' = db)
          /\ \A id \in 1..MaxId, a \in {"delete", "disable", "enable"} :
                (ToggleLoad(h, id, a) /\ id \notin Ids(db))
                   => (ui'[h] = IdleUi /\ db' = db)]_vars

\* C19: an exception raised by a registry load or save in a cycle, the load
\* at the top of the cycle included, does not end the scheduler thread: the
\* thread goes on within its loop.
C19_RegistryFaultSurvived ==
    [][\A t \in Threads :
          (faults' > faults /\ pc[t] \in {"load", "reload", "save"}
                           /\ pc'[t] # pc[t])
             => pc'[t] \in {"close", "sleep", "top"}]_vars

\* C20: whoever is inside a load or a save of the registry or of the settings
\* holds db_lock, no two callers are inside such an access at once, and the
\* lock is held only by a caller inside a load or save of the registry.
C20_StoreAccessLocked ==
    /\ \A c \in Callers : access[c] # "idle" => lock = c
    /\ \A c, d \in Callers :
          (c # d /\ access[c] # "idle") => access[d] = "idle"
    /\ lock # NoOne => access[lock] \in {"load_targets", "save_targets"}

\* C21: with the credentials absent the poll of a target runs as it does with
\* them: an enabled target of the batch is fetched, a send that finds no
\* credentials posts nothing, leaves the extracted content alone and goes on
\* to the next text or to the reconciliation, and the reconciliation save
\* stores the current time and, after a successful extraction, the extracted
\* content.
C21_PollingWithoutCredentials ==
    [][\A t \in Threads :
          ~settings_ok =>
             /\ (pc[t] = "pick" /\ pc'[t] # "pick" /\ Head(batch[t]).enabled)
                   => pc'[t] \in {"fetching", "crashed"}
             /\ SendMessage(t)
                   => /\ Posted(t)' = <<>>
                      /\ new_content'[t] = new_content[t]
                      /\ new_content[t] # NULL
                      /\ pc'[t] = IF Len(notice[t].outbox) > 1 THEN "notify"
                                  ELSE "reload"
             /\ ReconcileSave(t)
                   => /\ Find(db', Head(batch[t]).id).last_checked = now
                      /\ new_content[t] # NULL
                            => Find(db', Head(batch[t]).id).last_content
                                  = new_content[t]
             /\ (pc[t] = "reload" /\ pc'[t] # "reload" /\ faults' = faults)
                   => pc'[t] = "save"]_vars

\* C21 witness: without credentials a Changed poll has logged its error, and
\* its content and time are saved.
C21_Witness ==
    \E t \in Threads :
        /\ ~settings_ok
        /\ pc[t] = "close"
        /\ notice[t].event = "Changed"
        /\ ErrorsLogged(t) >= 1
        /\ Posted(t) = <<>>
        /\ db[1].last_content = new_content[t]
        /\ db[1].last_checked = now

\* C22: the reconciliation save of a poll writes the extracted content only
\* into the target the poll was started for: the target it updates has the
\* url that was fetched.
C22_ContentOfOwnUrl ==
    [][\A t \in Threads :
          (ReconcileSave(t) /\ new_content[t] # NULL)
             => Find(db', Head(batch[t]).id).url = Head(batch[t]).url]_vars

\* C23: a target of the persisted registry stays in it until a request for
\* its own id is saved (the save of an add set aside): no reconciliation save
\* and no save of an enable, disable or delete request for another id
\* removes it.
C23_AddedStaysUntilDeleted ==
    [][\A i \in 1..Len(db) :
          (~AddSaves /\ \A j \in 1..Len(db') :
                           ~(db'[j].id = db[i].id /\ db'[j].url = db[i].url))
             => \E h \in Handlers :
                   /\ UiSave(h)
                   /\ ui[h].op \in {"delete", "disable", "enable"}
                   /\ ui[h].id = db[i].id]_vars

====
